---- MODULE Spec2Model ----
(***************************************************************************)
(* The reservation engine of the theatre API: TicketSerializer validation, *)
(* ReservationSerializer.create inside transaction.atomic(), the cascade   *)
(* deletes declared on the models, and the availability annotation of the  *)
(* performance listing.                                                    *)
(*                                                                         *)
(* Storage is a relational store with transactions: rows written inside    *)
(* transaction.atomic() are invisible to other connections until commit,   *)
(* the UniqueConstraint of Ticket is checked when a row is inserted (an    *)
(* insert that meets an uncommitted row of another transaction waits for   *)
(* that transaction to end), and foreign keys are checked at commit.       *)
(* Following test_views.py:222-232, a seat that is already held is first   *)
(* detected by the insert in create(), not by the serializer; likewise the *)
(* UniqueConstraint of Performance is met by the INSERT / UPDATE.          *)
(*                                                                         *)
(* The HTTP surface is the router of urls.py with the permission classes   *)
(* of the viewsets; an error a view does not handle is a 500.              *)
(***************************************************************************)
EXTENDS Integers, Sequences, FiniteSets, TLC

\* Largest rows / seats_in_row of a hall.
MaxDim == 2
\* The clock runs over 0..MaxTime.
MaxTime == 2
\* Largest number of ticket items in one reservation request.
MaxBatch == 2
\* The attempts and the seconds of sleep of wait_for_db are counted up to
\* MaxTries attempts.
MaxTries == 8

Users == {"u1", "u2"}
Requests == {"A", "B"}
HallIds == {1, 2}
PerfIds == {1, 2}
\* Primary keys a client can name: the performances and one id naming none.
PerfRefs == PerfIds \cup {0}
\* Row and seat numbers a client can send.
Numbers == -1 .. MaxDim + 1

VARIABLES
  now,           \* timezone.now()
  users,         \* the User rows
  halls,         \* TheatreHall rows: id -> [rows, seats_in_row]
  perfs,         \* Performance rows: id -> [play, theatre_hall, show_time]
  reservations,  \* committed Reservation rows: [id, user]
  tickets,       \* committed Ticket rows: [row, seat, performance, reservation, n]
  req,           \* the reservation create requests being served
  listing,       \* the last response of GET /performances/: id -> tickets_available
  catalog,       \* the ids of the Actor, Genre and Play rows
  last,          \* the last response to a request other than a served create
  database,      \* the default database accepts connections
  cmd            \* the run of the wait_for_db command

vars ==
  <<now, users, halls, perfs, reservations, tickets, req, listing, catalog, last,
    database, cmd>>

NoDetail == [kind |-> "none", fields |-> <<>>]

IdleRequest ==
  [pc |-> "idle", user |-> "u1", items |-> <<>>, ins |-> 0,
   status |-> 0, detail |-> NoDetail]

Seat(t) == <<t.row, t.seat, t.performance>>

----------------------------------------------------------------------------
(* TicketSerializer: field validation, then validate()                     *)

\* Ticket.row / Ticket.seat are PositiveIntegerField: the serializer field
\* rejects a negative number before validate() runs.
FieldOk(value) == value >= 0

\* validate(): performance.show_time < timezone.now()
IsPast(show_time, t) == show_time < t

\* InRange with the lower limit off by one.
InRangeFromZero(value, max_count) == 0 <= value /\ value <= max_count

\* Ticket.validate_ticket: not (1 <= value <= max_count)
InRange(value, max_count) == 1 <= value /\ value <= max_count

\* Ticket.validate_ticket raises for the first of (row, seat) out of range.
validate_ticket(row, seat, hall) ==
  IF ~InRange(row, hall.rows) THEN {"row"}
  ELSE IF ~InRange(seat, hall.seats_in_row) THEN {"seat"}
  ELSE {}

\* FieldErrors that stops at the first field that fails.
FieldErrorsFirstOnly(item, P) ==
  IF ~FieldOk(item.row) THEN {"row"}
  ELSE IF ~FieldOk(item.seat) THEN {"seat"}
  ELSE IF item.performance \notin DOMAIN P THEN {"performance"}
  ELSE {}

\* The field errors of one item (all of them are collected).
FieldErrors(item, P) ==
  (IF FieldOk(item.row) THEN {} ELSE {"row"})
  \cup (IF FieldOk(item.seat) THEN {} ELSE {"seat"})
  \cup (IF item.performance \in DOMAIN P THEN {} ELSE {"performance"})

\* ItemErrors with the range check placed before the show-time check.
ItemErrorsRangeFirst(item, t, P, H) ==
  IF FieldErrors(item, P) # {} THEN FieldErrors(item, P)
  ELSE IF validate_ticket(item.row, item.seat,
                          H[P[item.performance].theatre_hall]) # {}
       THEN validate_ticket(item.row, item.seat, H[P[item.performance].theatre_hall])
  ELSE IF IsPast(P[item.performance].show_time, t) THEN {"performance"}
  ELSE {}

\* The keys of the error one item gets; {} when the item is valid.
ItemErrors(item, t, P, H) ==
  IF FieldErrors(item, P) # {} THEN FieldErrors(item, P)
  ELSE IF IsPast(P[item.performance].show_time, t) THEN {"performance"}
  ELSE validate_ticket(item.row, item.seat, H[P[item.performance].theatre_hall])

\* BatchErrors that looks at the first item only.
BatchErrorsFirstOnly(items, t, P, H) ==
  IF Len(items) = 0 THEN [kind |-> "empty", fields |-> <<>>]
  ELSE IF ItemErrors(items[1], t, P, H) # {}
       THEN [kind |-> "fields",
             fields |-> [i \in 1..Len(items) |-> ItemErrors(items[i], t, P, H)]]
       ELSE NoDetail

\* BatchErrors with allow_empty left at its default.
BatchErrorsAllowEmpty(items, t, P, H) ==
  IF \E i \in 1..Len(items) : ItemErrors(items[i], t, P, H) # {}
  THEN [kind |-> "fields",
        fields |-> [i \in 1..Len(items) |-> ItemErrors(items[i], t, P, H)]]
  ELSE NoDetail

\* ReservationSerializer.is_valid: tickets is many=True, allow_empty=False.
BatchErrors(items, t, P, H) ==
  IF Len(items) = 0 THEN [kind |-> "empty", fields |-> <<>>]
  ELSE IF \E i \in 1..Len(items) : ItemErrors(items[i], t, P, H) # {}
       THEN [kind |-> "fields",
             fields |-> [i \in 1..Len(items) |-> ItemErrors(items[i], t, P, H)]]
       ELSE NoDetail

----------------------------------------------------------------------------
(* ReservationSerializer.create                                            *)

InTx(q) == req[q].pc = "tx"

\* The ticket rows q has inserted and not yet committed.
Inserted(q) == IF InTx(q) THEN {req[q].items[i] : i \in 1..req[q].ins} ELSE {}

HeldBy(q, s) == \E it \in Inserted(q) : Seat(it) = s

NextItem(q) == req[q].items[req[q].ins + 1]

Inserting(q) == InTx(q) /\ req[q].ins < Len(req[q].items)

\* q's insert waits for p: p holds the uncommitted row of the seat q inserts.
WaitsFor(q, p) == p # q /\ Inserting(q) /\ HeldBy(p, Seat(NextItem(q)))

Blocked(q) == \E p \in Requests : WaitsFor(q, p)

\* A constraint that meets the committed rows only, not the rows of the same
\* bulk_create.
UniqueViolationCommittedOnly(q, s) == \E t \in tickets : Seat(t) = s

\* A constraint on (row, performance) alone, without the seat.
UniqueViolationRowOnly(q, s) ==
  \/ \E t \in tickets : t.row = s[1] /\ t.performance = s[3]
  \/ \E it \in Inserted(q) : it.row = s[1] /\ it.performance = s[3]

\* The Ticket table without its UniqueConstraint.
UniqueViolationUnchecked(q, s) == FALSE

\* uniq_row_and_seat_for_performance: the seat is a committed row, or a row
\* the same bulk_create has already inserted.
UniqueViolation(q, s) ==
  \/ \E t \in tickets : Seat(t) = s
  \/ HeldBy(q, s)

\* The foreign keys of the rows of q, checked at commit.
ForeignKeysOk(q) ==
  /\ req[q].user \in users
  /\ \A i \in 1..Len(req[q].items) : req[q].items[i].performance \in DOMAIN perfs

\* NewTickets that drops the last item of the batch.
NewTicketsButLast(q) ==
  {[row |-> req[q].items[i].row, seat |-> req[q].items[i].seat,
    performance |-> req[q].items[i].performance,
    reservation |-> q, n |-> i] : i \in 1..(Len(req[q].items) - 1)}

\* The Ticket rows of the batch, Ticket(reservation=reservation, **item).
NewTickets(q) ==
  {[row |-> req[q].items[i].row, seat |-> req[q].items[i].seat,
    performance |-> req[q].items[i].performance,
    reservation |-> q, n |-> i] : i \in 1..Len(req[q].items)}

Finish(q, st, kind) ==
  req' = [req EXCEPT ![q].pc = "done", ![q].ins = 0, ![q].status = st,
                     ![q].detail = [kind |-> kind, fields |-> <<>>]]

\* POST /reservations/: serializer.is_valid(raise_exception=True)
Validate(q, u, items) ==
  /\ req[q].pc = "idle"
  /\ u \in users
  /\ LET e == BatchErrors(items, now, perfs, halls) IN
       req' = [req EXCEPT ![q] =
                 IF e.kind = "none"
                 THEN [pc |-> "valid", user |-> u, items |-> items, ins |-> 0,
                       status |-> 0, detail |-> NoDetail]
                 ELSE [pc |-> "done", user |-> u, items |-> items, ins |-> 0,
                       status |-> 400, detail |-> e]]
  /\ UNCHANGED <<now, users, halls, perfs, reservations, tickets, listing, catalog, last, database, cmd>>

\* BeginTx outside a transaction: the Reservation row is visible at once.
BeginTxAutocommit(q) ==
  /\ req[q].pc = "valid"
  /\ req' = [req EXCEPT ![q].pc = "tx"]
  /\ reservations' = reservations \cup {[id |-> q, user |-> req[q].user]}
  /\ UNCHANGED <<now, users, halls, perfs, tickets, listing, catalog, last, database, cmd>>

\* with transaction.atomic(): reservation = Reservation.objects.create(user=user)
BeginTx(q) ==
  /\ req[q].pc = "valid"
  /\ req' = [req EXCEPT ![q].pc = "tx"]
  /\ UNCHANGED <<now, users, halls, perfs, reservations, tickets, listing, catalog, last, database, cmd>>

\* InsertRow outside a transaction: the rows written before the
\* IntegrityError stay in the store.
InsertRowNoRollback(q) ==
  /\ Inserting(q)
  /\ ~Blocked(q)
  /\ IF UniqueViolation(q, Seat(NextItem(q)))
     THEN /\ reservations' = reservations \cup {[id |-> q, user |-> req[q].user]}
          /\ tickets' = tickets \cup {t \in NewTickets(q) : t.n <= req[q].ins}
          /\ Finish(q, 400, "taken")
     ELSE /\ req' = [req EXCEPT ![q].ins = @ + 1]
          /\ UNCHANGED <<reservations, tickets>>
  /\ UNCHANGED <<now, users, halls, perfs, listing, catalog, last, database, cmd>>

\* InsertRow that answers the conflict and keeps the transaction open, so
\* that the insert is tried again.
InsertRowRetry(q) ==
  /\ Inserting(q)
  /\ ~Blocked(q)
  /\ IF UniqueViolation(q, Seat(NextItem(q)))
     THEN req' = [req EXCEPT ![q].status = 400,
                             ![q].detail = [kind |-> "taken", fields |-> <<>>]]
     ELSE req' = [req EXCEPT ![q].ins = @ + 1]
  /\ UNCHANGED <<now, users, halls, perfs, reservations, tickets, listing, catalog, last, database, cmd>>

\* Ticket.objects.bulk_create(tickets), one row of the INSERT at a time;
\* except IntegrityError: raise ValidationError (the block rolls back).
InsertRow(q) ==
  /\ Inserting(q)
  /\ ~Blocked(q)
  /\ IF UniqueViolation(q, Seat(NextItem(q)))
     THEN Finish(q, 400, "taken")
     ELSE req' = [req EXCEPT ![q].ins = @ + 1]
  /\ UNCHANGED <<now, users, halls, perfs, reservations, tickets, listing, catalog, last, database, cmd>>

\* Commit that gives the reservation to a user other than request.user.
CommitOwnerUnbound(q) ==
  /\ InTx(q)
  /\ req[q].ins = Len(req[q].items)
  /\ IF ForeignKeysOk(q)
     THEN /\ reservations' = reservations \cup {[id |-> q, user |-> "u1"]}
          /\ tickets' = tickets \cup NewTickets(q)
          /\ Finish(q, 201, "none")
     ELSE /\ UNCHANGED <<reservations, tickets>>
          /\ Finish(q, 500, "integrity")
  /\ UNCHANGED <<now, users, halls, perfs, listing, catalog, last, database, cmd>>

\* Leaving the atomic block: COMMIT, where the foreign keys are checked. An
\* IntegrityError raised here is outside the try and is not translated.
Commit(q) ==
  /\ InTx(q)
  /\ req[q].ins = Len(req[q].items)
  /\ IF ForeignKeysOk(q)
     THEN /\ reservations' = reservations \cup {[id |-> q, user |-> req[q].user]}
          /\ tickets' = tickets \cup NewTickets(q)
          /\ Finish(q, 201, "none")
     ELSE /\ UNCHANGED <<reservations, tickets>>
          /\ Finish(q, 500, "integrity")
  /\ UNCHANGED <<now, users, halls, perfs, listing, catalog, last, database, cmd>>

\* Two inserts wait for each other: the store aborts one of them with an
\* OperationalError, which create() does not catch.
DeadlockAbort(q) ==
  /\ \E p \in Requests : WaitsFor(q, p) /\ WaitsFor(p, q)
  /\ Finish(q, 500, "deadlock")
  /\ UNCHANGED <<now, users, halls, perfs, reservations, tickets, listing, catalog, last, database, cmd>>

Tick ==
  /\ now < MaxTime
  /\ now' = now + 1
  /\ UNCHANGED <<users, halls, perfs, reservations, tickets, req, listing, catalog, last, database, cmd>>

----------------------------------------------------------------------------
(* Deletes and updates: ModelViewSet destroy / update and the on_delete    *)
(* rules of the models                                                     *)

TicketsOfPerformances(ps) == {t \in tickets : t.performance \in ps}

TicketsOfReservations(ids) == {t \in tickets : t.reservation \in ids}

\* A delete of the Reservation that leaves its Ticket rows in place.
DeleteReservationKeepTickets(r) ==
  /\ r \in reservations
  /\ reservations' = reservations \ {r}
  /\ UNCHANGED <<now, users, halls, perfs, tickets, req, listing, catalog, last, database, cmd>>

\* Ticket.reservation is on_delete=CASCADE.
DeleteReservation(r) ==
  /\ r \in reservations
  /\ reservations' = reservations \ {r}
  /\ tickets' = tickets \ TicketsOfReservations({r.id})
  /\ UNCHANGED <<now, users, halls, perfs, req, listing, catalog, last, database, cmd>>

\* Reservation.user is on_delete=CASCADE.
DeleteUser(u) ==
  /\ u \in users
  /\ users' = users \ {u}
  /\ reservations' = {r \in reservations : r.user # u}
  /\ tickets' = tickets \ TicketsOfReservations({r.id : r \in {x \in reservations : x.user = u}})
  /\ UNCHANGED <<now, halls, perfs, req, listing, catalog, last, database, cmd>>

\* Ticket.performance is on_delete=CASCADE.
DeletePerformance(p) ==
  /\ p \in DOMAIN perfs
  /\ perfs' = [x \in DOMAIN perfs \ {p} |-> perfs[x]]
  /\ tickets' = tickets \ TicketsOfPerformances({p})
  /\ UNCHANGED <<now, users, halls, reservations, req, listing, catalog, last, database, cmd>>

PerformancesOfHall(h) == {p \in DOMAIN perfs : perfs[p].theatre_hall = h}

\* DeleteHall that also removes the reservations whose tickets it removes.
DeleteHallWithReservations(h) ==
  /\ h \in DOMAIN halls
  /\ halls' = [x \in DOMAIN halls \ {h} |-> halls[x]]
  /\ perfs' = [x \in DOMAIN perfs \ PerformancesOfHall(h) |-> perfs[x]]
  /\ tickets' = tickets \ TicketsOfPerformances(PerformancesOfHall(h))
  /\ reservations' =
       {r \in reservations :
          \A t \in TicketsOfPerformances(PerformancesOfHall(h)) : t.reservation # r.id}
  /\ UNCHANGED <<now, users, req, listing, catalog, last, database, cmd>>

\* Performance.theatre_hall is on_delete=CASCADE, and so on to the tickets.
DeleteHall(h) ==
  /\ h \in DOMAIN halls
  /\ halls' = [x \in DOMAIN halls \ {h} |-> halls[x]]
  /\ perfs' = [x \in DOMAIN perfs \ PerformancesOfHall(h) |-> perfs[x]]
  /\ tickets' = tickets \ TicketsOfPerformances(PerformancesOfHall(h))
  /\ UNCHANGED <<now, users, reservations, req, listing, catalog, last, database, cmd>>

\* PUT /halls/{id}/: rows and seats_in_row are plain writable fields.
UpdateHall(h, rows, seats) ==
  /\ h \in DOMAIN halls
  /\ halls' = [halls EXCEPT ![h] = [rows |-> rows, seats_in_row |-> seats]]
  /\ UNCHANGED <<now, users, perfs, reservations, tickets, req, listing, catalog, last, database, cmd>>

\* uniq_show_time_per_hall
HallTimeTaken(p, h, t) ==
  \E x \in DOMAIN perfs \ {p} : perfs[x].theatre_hall = h /\ perfs[x].show_time = t

\* PUT /performances/{id}/ that is accepted.
UpdatePerformance(p, h, t) ==
  /\ p \in DOMAIN perfs
  /\ h \in DOMAIN halls
  /\ ~HallTimeTaken(p, h, t)
  /\ perfs' = [perfs EXCEPT ![p].theatre_hall = h, ![p].show_time = t]
  /\ UNCHANGED <<now, users, halls, reservations, tickets, req, listing, catalog, last, database, cmd>>

----------------------------------------------------------------------------
(* PerformanceViewSet.get_queryset: the availability annotation            *)

\* TicketsAvailable that counts the tickets of every performance.
TicketsAvailableAllTickets(p) ==
  halls[perfs[p].theatre_hall].rows * halls[perfs[p].theatre_hall].seats_in_row
    - Cardinality(tickets)

\* F("theatre_hall__rows") * F("theatre_hall__seats_in_row") - Count("tickets")
TicketsAvailable(p) ==
  halls[perfs[p].theatre_hall].rows * halls[perfs[p].theatre_hall].seats_in_row
    - Cardinality({t \in tickets : t.performance = p})

\* GET /performances/
ListPerformances ==
  /\ listing' = [p \in DOMAIN perfs |-> TicketsAvailable(p)]
  /\ UNCHANGED <<now, users, halls, perfs, reservations, tickets, req, catalog, last, database, cmd>>

----------------------------------------------------------------------------
(* The HTTP surface: the router of urls.py, the permission checks of        *)
(* APIView.initial and the ModelViewSet handlers                            *)

Anonymous == "anon"

\* The accounts with is_staff set (create_superuser).
Staff == {"admin"}

Principals == Users \cup Staff \cup {Anonymous}

RowKinds == {"actors", "genres", "plays"}

Catalog == RowKinds \cup {"halls", "performances"}

RowIds == {1, 2}

\* The actions a DefaultRouter routes for a ModelViewSet, and upload-image.
Actions ==
  {"list", "retrieve", "create", "update", "partial_update", "destroy",
   "upload_image"}

Method(act) ==
  CASE act \in {"list", "retrieve"} -> "GET"
    [] act \in {"create", "upload_image"} -> "POST"
    [] act = "update" -> "PUT"
    [] act = "partial_update" -> "PATCH"
    [] act = "destroy" -> "DELETE"

SAFE_METHODS == {"GET", "HEAD", "OPTIONS"}

\* request.user is a User row; the anonymous caller has none.
is_authenticated(c) == c \in users

is_staff(c) == c \in users /\ c \in Staff

\* IsAdminOrReadOnly that admits every authenticated caller.
IsAdminOrReadOnlyAnyUser(method, c) ==
  method \in SAFE_METHODS \/ is_authenticated(c)

\* IsAdminOrReadOnly.has_permission
IsAdminOrReadOnly(method, c) == method \in SAFE_METHODS \/ is_staff(c)

\* IsAuthenticated replaced by AllowAny.
IsAuthenticatedAllowAny(c) == TRUE

\* permission_classes = [IsAuthenticated]
IsAuthenticated(c) == is_authenticated(c)

\* permission_classes = [IsAdminUser] of upload_image
IsAdminUser(c) == is_staff(c)

\* The permission class of the viewsets that set none: the project default.
DefaultPermission(method, c) == IsAdminOrReadOnly(method, c)

\* APIView.check_permissions for the viewset of res and its action act.
HasPermission(res, act, c) ==
  IF res = "reservations" THEN IsAuthenticated(c)
  ELSE IF act = "upload_image" THEN IsAdminUser(c)
  ELSE DefaultPermission(Method(act), c)

\* The status of a refused request: 403 for a caller who is authenticated;
\* for one who is not, 401 on reservations and 403 on the catalog.
DeniedStatus(res, c) ==
  IF is_authenticated(c) THEN 403
  ELSE IF res = "reservations" THEN 401 ELSE 403

NoResponse ==
  [n |-> 0, caller |-> Anonymous, resource |-> "none", action |-> "none",
   id |-> 0, data |-> <<>>, status |-> 0, body |-> {}]

\* The response to a request; n tells one response from the next.
Respond(c, res, act, id, data, st, body) ==
  last' = [n |-> 1 - last.n, caller |-> c, resource |-> res, action |-> act,
           id |-> id, data |-> data, status |-> st, body |-> body]

\* permission_denied: the handler does not run.
Refuse(c, res, act, id) ==
  /\ ~HasPermission(res, act, c)
  /\ Respond(c, res, act, id, <<>>, DeniedStatus(res, c), {})
  /\ UNCHANGED <<now, users, halls, perfs, reservations, tickets, req, listing, catalog, database, cmd>>

\* The primary keys of the rows of a catalog resource.
Rows(res) ==
  IF res \in RowKinds THEN catalog[res]
  ELSE IF res = "halls" THEN DOMAIN halls ELSE DOMAIN perfs

\* GET /<res>/
CatalogList(c, res) ==
  /\ HasPermission(res, "list", c)
  /\ Respond(c, res, "list", 0, <<>>, 200, {})
  /\ UNCHANGED <<now, users, halls, perfs, reservations, tickets, req, listing, catalog, database, cmd>>

\* GET /<res>/{id}/
CatalogRetrieve(c, res, id) ==
  /\ HasPermission(res, "retrieve", c)
  /\ Respond(c, res, "retrieve", id, <<>>, IF id \in Rows(res) THEN 200 ELSE 404, {})
  /\ UNCHANGED <<now, users, halls, perfs, reservations, tickets, req, listing, catalog, database, cmd>>

\* POST /actors/, /genres/, /plays/
RowCreate(c, res, id) ==
  /\ HasPermission(res, "create", c)
  /\ id \notin catalog[res]
  /\ catalog' = [catalog EXCEPT ![res] = @ \cup {id}]
  /\ Respond(c, res, "create", id, <<>>, 201, {})
  /\ UNCHANGED <<now, users, halls, perfs, reservations, tickets, req, listing, database, cmd>>

\* PUT / PATCH /actors/{id}/, /genres/{id}/, /plays/{id}/
RowUpdate(c, res, act, id) ==
  /\ act \in {"update", "partial_update"}
  /\ HasPermission(res, act, c)
  /\ Respond(c, res, act, id, <<>>, IF id \in catalog[res] THEN 200 ELSE 404, {})
  /\ UNCHANGED <<now, users, halls, perfs, reservations, tickets, req, listing, catalog, database, cmd>>

\* DELETE /actors/{id}/, /genres/{id}/
RowDestroy(c, res, id) ==
  /\ res \in {"actors", "genres"}
  /\ HasPermission(res, "destroy", c)
  /\ IF id \in catalog[res]
     THEN /\ catalog' = [catalog EXCEPT ![res] = @ \ {id}]
          /\ Respond(c, res, "destroy", id, <<>>, 204, {})
     ELSE /\ UNCHANGED catalog
          /\ Respond(c, res, "destroy", id, <<>>, 404, {})
  /\ UNCHANGED <<now, users, halls, perfs, reservations, tickets, req, listing, database, cmd>>

PerformancesOfPlay(id) == {p \in DOMAIN perfs : perfs[p].play = id}

\* PlayDestroy with Performance.play on_delete=CASCADE.
PlayDestroyCascade(c, id) ==
  /\ HasPermission("plays", "destroy", c)
  /\ IF id \notin catalog["plays"]
     THEN /\ UNCHANGED <<catalog, perfs, tickets>>
          /\ Respond(c, "plays", "destroy", id, <<>>, 404, {})
     ELSE /\ catalog' = [catalog EXCEPT !["plays"] = @ \ {id}]
          /\ perfs' = [x \in DOMAIN perfs \ PerformancesOfPlay(id) |-> perfs[x]]
          /\ tickets' = tickets \ TicketsOfPerformances(PerformancesOfPlay(id))
          /\ Respond(c, "plays", "destroy", id, <<>>, 204, {})
  /\ UNCHANGED <<now, users, halls, reservations, req, listing, database, cmd>>

\* DELETE /plays/{id}/: Performance.play is on_delete=PROTECT, and the
\* ProtectedError of instance.delete() is not handled by the view.
PlayDestroy(c, id) ==
  /\ HasPermission("plays", "destroy", c)
  /\ IF id \notin catalog["plays"]
     THEN /\ UNCHANGED catalog
          /\ Respond(c, "plays", "destroy", id, <<>>, 404, {})
     ELSE IF PerformancesOfPlay(id) # {}
     THEN /\ UNCHANGED catalog
          /\ Respond(c, "plays", "destroy", id, <<>>, 500, {})
     ELSE /\ catalog' = [catalog EXCEPT !["plays"] = @ \ {id}]
          /\ Respond(c, "plays", "destroy", id, <<>>, 204, {})
  /\ UNCHANGED <<now, users, halls, perfs, reservations, tickets, req, listing, database, cmd>>

\* POST /plays/{id}/upload-image/
upload_image(c, id) ==
  /\ HasPermission("plays", "upload_image", c)
  /\ Respond(c, "plays", "upload_image", id, <<>>,
             IF id \in catalog["plays"] THEN 200 ELSE 404, {})
  /\ UNCHANGED <<now, users, halls, perfs, reservations, tickets, req, listing, catalog, database, cmd>>

\* POST /halls/
HallCreate(c, h, rows, seats) ==
  /\ HasPermission("halls", "create", c)
  /\ h \notin DOMAIN halls
  /\ IF FieldOk(rows) /\ FieldOk(seats)
     THEN /\ halls' = [x \in DOMAIN halls \cup {h} |->
                         IF x = h THEN [rows |-> rows, seats_in_row |-> seats]
                         ELSE halls[x]]
          /\ Respond(c, "halls", "create", h, <<rows, seats>>, 201, {})
     ELSE /\ UNCHANGED halls
          /\ Respond(c, "halls", "create", h, <<rows, seats>>, 400, {})
  /\ UNCHANGED <<now, users, perfs, reservations, tickets, req, listing, catalog, database, cmd>>

\* PUT /halls/{id}/
HallUpdate(c, h, rows, seats) ==
  /\ HasPermission("halls", "update", c)
  /\ IF h \notin DOMAIN halls
     THEN /\ UNCHANGED halls
          /\ Respond(c, "halls", "update", h, <<rows, seats>>, 404, {})
     ELSE IF FieldOk(rows) /\ FieldOk(seats)
     THEN /\ halls' = [halls EXCEPT ![h] = [rows |-> rows, seats_in_row |-> seats]]
          /\ Respond(c, "halls", "update", h, <<rows, seats>>, 200, {})
     ELSE /\ UNCHANGED halls
          /\ Respond(c, "halls", "update", h, <<rows, seats>>, 400, {})
  /\ UNCHANGED <<now, users, perfs, reservations, tickets, req, listing, catalog, database, cmd>>

\* DELETE /halls/{id}/
HallDestroy(c, h) ==
  /\ HasPermission("halls", "destroy", c)
  /\ IF h \notin DOMAIN halls
     THEN /\ UNCHANGED <<halls, perfs, tickets>>
          /\ Respond(c, "halls", "destroy", h, <<>>, 404, {})
     ELSE /\ halls' = [x \in DOMAIN halls \ {h} |-> halls[x]]
          /\ perfs' = [x \in DOMAIN perfs \ PerformancesOfHall(h) |-> perfs[x]]
          /\ tickets' = tickets \ TicketsOfPerformances(PerformancesOfHall(h))
          /\ Respond(c, "halls", "destroy", h, <<>>, 204, {})
  /\ UNCHANGED <<now, users, reservations, req, listing, catalog, database, cmd>>

\* PerformanceSerializer.is_valid: play and theatre_hall name existing rows.
PerformanceFieldsOk(play, h) == play \in catalog["plays"] /\ h \in DOMAIN halls

\* serializer.save() of a Performance: the INSERT / UPDATE meets
\* uniq_show_time_per_hall, and its IntegrityError is not handled by the view.
PerformanceWrite(c, act, p, play, h, t) ==
  IF HallTimeTaken(p, h, t)
  THEN /\ UNCHANGED perfs
       /\ Respond(c, "performances", act, p, <<play, h, t>>, 500, {})
  ELSE /\ perfs' = [x \in DOMAIN perfs \cup {p} |->
                      IF x = p THEN [play |-> play, theatre_hall |-> h, show_time |-> t]
                      ELSE perfs[x]]
       /\ Respond(c, "performances", act, p, <<play, h, t>>,
                  IF act = "create" THEN 201 ELSE 200, {})

\* POST /performances/
PerformanceCreate(c, p, play, h, t) ==
  /\ HasPermission("performances", "create", c)
  /\ p \notin DOMAIN perfs
  /\ IF PerformanceFieldsOk(play, h)
     THEN PerformanceWrite(c, "create", p, play, h, t)
     ELSE /\ UNCHANGED perfs
          /\ Respond(c, "performances", "create", p, <<play, h, t>>, 400, {})
  /\ UNCHANGED <<now, users, halls, reservations, tickets, req, listing, catalog, database, cmd>>

\* PUT /performances/{id}/
PerformanceUpdate(c, p, play, h, t) ==
  /\ HasPermission("performances", "update", c)
  /\ IF p \notin DOMAIN perfs
     THEN /\ UNCHANGED perfs
          /\ Respond(c, "performances", "update", p, <<play, h, t>>, 404, {})
     ELSE IF PerformanceFieldsOk(play, h)
     THEN PerformanceWrite(c, "update", p, play, h, t)
     ELSE /\ UNCHANGED perfs
          /\ Respond(c, "performances", "update", p, <<play, h, t>>, 400, {})
  /\ UNCHANGED <<now, users, halls, reservations, tickets, req, listing, catalog, database, cmd>>

\* DELETE /performances/{id}/
PerformanceDestroy(c, p) ==
  /\ HasPermission("performances", "destroy", c)
  /\ IF p \notin DOMAIN perfs
     THEN /\ UNCHANGED <<perfs, tickets>>
          /\ Respond(c, "performances", "destroy", p, <<>>, 404, {})
     ELSE /\ perfs' = [x \in DOMAIN perfs \ {p} |-> perfs[x]]
          /\ tickets' = tickets \ TicketsOfPerformances({p})
          /\ Respond(c, "performances", "destroy", p, <<>>, 204, {})
  /\ UNCHANGED <<now, users, halls, reservations, req, listing, catalog, database, cmd>>

\* The filter backends of the project settings: the one of django-filter,
\* which applies the filterset_class of a viewset to its list.
filter_backends == {"DjangoFilterBackend"}

\* PerformanceFilter: the model field each query parameter is declared on.
PerformanceFilter ==
  [date_from |-> "show_time", date_to |-> "show_time",
   play |-> "play_id", hall |-> "hall_id"]

\* The names Performance.objects.filter() resolves: the columns of Performance.
PerformanceColumns == {"id", "play_id", "theatre_hall_id", "show_time"}

\* The __date transform of show_time: the day a time falls on (two times a day).
DateOf(t) == t \div 2

\* The value of a column of the performance p.
Column(p, name) ==
  CASE name = "play_id" -> perfs[p].play
    [] name = "theatre_hall_id" -> perfs[p].theatre_hall
    [] name = "show_time" -> perfs[p].show_time
    [] OTHER -> p

\* queryset.filter(<field>=value) on a name that is no field: FieldError.
FieldError(f) ==
  \E k \in DOMAIN f : PerformanceFilter[k] \notin PerformanceColumns

\* FilterSet.filter_queryset: every parameter given narrows the queryset by the
\* lookup of its filter (date__gte, date__lte, exact).
filter_queryset(f) ==
  {p \in DOMAIN perfs :
     \A k \in DOMAIN f :
       CASE k = "date_from" -> DateOf(Column(p, PerformanceFilter[k])) >= f[k]
         [] k = "date_to" -> DateOf(Column(p, PerformanceFilter[k])) <= f[k]
         [] OTHER -> Column(p, PerformanceFilter[k]) = f[k]}

\* GET /performances/?date_from=&date_to=&play=&hall= with the parameters f:
\* a FieldError is handled by nobody and the response is a 500.
PerformanceList(c, f) ==
  /\ HasPermission("performances", "list", c)
  /\ IF "DjangoFilterBackend" \in filter_backends /\ FieldError(f)
     THEN /\ UNCHANGED listing
          /\ Respond(c, "performances", "list", 0, f, 500, {})
     ELSE /\ listing' =
               [p \in (IF "DjangoFilterBackend" \in filter_backends
                       THEN filter_queryset(f) ELSE DOMAIN perfs)
                  |-> TicketsAvailable(p)]
          /\ Respond(c, "performances", "list", 0, f, 200, {})
  /\ UNCHANGED <<now, users, halls, perfs, reservations, tickets, req, catalog, database, cmd>>

\* ReservationViewSet.get_queryset without the filter on the user.
ReservationQuerysetAll(c) == reservations

\* ReservationViewSet.get_queryset: Reservation.objects.filter(user=request.user)
ReservationQueryset(c) == {r \in reservations : r.user = c}

\* GET /reservations/
ReservationList(c) ==
  /\ HasPermission("reservations", "list", c)
  /\ Respond(c, "reservations", "list", 0, <<>>, 200,
             {r.id : r \in ReservationQueryset(c)})
  /\ UNCHANGED <<now, users, halls, perfs, reservations, tickets, req, listing, catalog, database, cmd>>

\* GET, PUT and PATCH /reservations/{id}/: get_object() on the caller's
\* queryset; ReservationListSerializer has no writable field.
ReservationDetail(c, act, id) ==
  /\ act \in {"retrieve", "update", "partial_update"}
  /\ HasPermission("reservations", act, c)
  /\ Respond(c, "reservations", act, id, <<>>,
             IF \E r \in ReservationQueryset(c) : r.id = id THEN 200 ELSE 404,
             {r.id : r \in {x \in ReservationQueryset(c) : x.id = id}})
  /\ UNCHANGED <<now, users, halls, perfs, reservations, tickets, req, listing, catalog, database, cmd>>

\* DELETE /reservations/{id}/
ReservationDestroy(c, id) ==
  /\ HasPermission("reservations", "destroy", c)
  /\ IF \E r \in ReservationQueryset(c) : r.id = id
     THEN /\ reservations' = {r \in reservations : r.id # id}
          /\ tickets' = tickets \ TicketsOfReservations({id})
          /\ Respond(c, "reservations", "destroy", id, <<>>, 204, {})
     ELSE /\ UNCHANGED <<reservations, tickets>>
          /\ Respond(c, "reservations", "destroy", id, <<>>, 404, {})
  /\ UNCHANGED <<now, users, halls, perfs, req, listing, catalog, database, cmd>>

----------------------------------------------------------------------------
(* The management command wait_for_db: Command.handle                       *)

\* delay = 3: the seconds handle sleeps after a failed attempt.
delay == 3

\* The command before it runs: tries and slept count the calls of
\* ensure_connection and the seconds slept, out is the last line written.
NewCommand ==
  [pc |-> "start", is_connected |-> FALSE, remaining |-> 0,
   tries |-> 0, slept |-> 0, out |-> "none"]

\* A count that is kept exact up to cap.
Counted(n, cap) == IF n < cap THEN n + 1 ELSE n

\* The server of the default database starts or stops accepting connections.
DatabaseStarts ==
  /\ ~database
  /\ database' = TRUE
  /\ UNCHANGED <<now, users, halls, perfs, reservations, tickets, req, listing,
                 catalog, last, cmd>>

DatabaseStops ==
  /\ database
  /\ database' = FALSE
  /\ UNCHANGED <<now, users, halls, perfs, reservations, tickets, req, listing,
                 catalog, last, cmd>>

\* handle up to the loop: "Waiting for database...", is_connected = False.
WaitStart ==
  /\ cmd.pc = "start"
  /\ cmd' = [cmd EXCEPT !.pc = "try", !.is_connected = FALSE, !.out = "waiting"]
  /\ UNCHANGED <<now, users, halls, perfs, reservations, tickets, req, listing,
                 catalog, last, database>>

\* An attempt that takes the OperationalError for a connection.
EnsureConnectionAnyOutcome ==
  /\ cmd.pc = "try"
  /\ cmd' = [cmd EXCEPT !.pc = "exit", !.is_connected = TRUE,
                        !.tries = Counted(cmd.tries, MaxTries)]
  /\ UNCHANGED <<now, users, halls, perfs, reservations, tickets, req, listing,
                 catalog, last, database>>

\* One pass of the loop body: connections["default"].ensure_connection()
\* either returns, and is_connected = True ends the loop, or raises
\* OperationalError, and handle writes "Database is not ready" and sleeps.
EnsureConnection ==
  /\ cmd.pc = "try"
  /\ IF database
     THEN cmd' = [cmd EXCEPT !.pc = "exit", !.is_connected = TRUE,
                             !.tries = Counted(cmd.tries, MaxTries)]
     ELSE cmd' = [cmd EXCEPT !.pc = "sleep", !.remaining = delay,
                             !.tries = Counted(cmd.tries, MaxTries),
                             !.out = "not ready"]
  /\ UNCHANGED <<now, users, halls, perfs, reservations, tickets, req, listing,
                 catalog, last, database>>

\* One second of time.sleep(delay); after the last one the loop tests
\* is_connected, which is False, and tries again.
Sleep ==
  /\ cmd.pc = "sleep"
  /\ cmd' = [cmd EXCEPT !.remaining = cmd.remaining - 1,
                        !.slept = Counted(cmd.slept, delay * MaxTries),
                        !.pc = IF cmd.remaining = 1 THEN "try" ELSE "sleep"]
  /\ UNCHANGED <<now, users, halls, perfs, reservations, tickets, req, listing,
                 catalog, last, database>>

\* After the loop: "Database is ready", and handle returns.
WaitReady ==
  /\ cmd.pc = "exit"
  /\ cmd' = [cmd EXCEPT !.pc = "done", !.out = "ready"]
  /\ UNCHANGED <<now, users, halls, perfs, reservations, tickets, req, listing,
                 catalog, last, database>>

----------------------------------------------------------------------------
(* Inputs and specifications                                               *)

Items(R, S, P) == [row : R, seat : S, performance : P]

Batches(I) == UNION {[1..n -> I] : n \in 0..MaxBatch}

\* The seats of hall 1 as it is created, for performance 1.
HallOneSeats == Items({1}, 1..MaxDim, {1})

SeatOf(r, s, p) == [row |-> r, seat |-> s, performance |-> p]

\* The requests sent while rows are also deleted and updated: one seat, two
\* seats in either order, and the same seat of another performance.
StoreBatches ==
  {<<SeatOf(1, 1, 1)>>, <<SeatOf(1, 1, 1), SeatOf(1, 2, 1)>>,
   <<SeatOf(1, 2, 1), SeatOf(1, 1, 1)>>, <<SeatOf(1, 1, 2)>>}

\* A reservation made earlier, holding seat (1, 1) of performance 1.
EarlierReservation == [id |-> "R0", user |-> "u1"]

EarlierTicket ==
  [row |-> 1, seat |-> 1, performance |-> 1, reservation |-> "R0", n |-> 1]

InitCatalog ==
  /\ now = 0
  /\ users = Users
  /\ halls = [h \in HallIds |-> [rows |-> 1, seats_in_row |-> MaxDim]]
  /\ perfs = [p \in PerfIds |-> [play |-> 1, theatre_hall |-> p, show_time |-> p]]
  /\ req = [q \in Requests |-> IdleRequest]
  /\ listing = [p \in {} |-> 0]
  /\ catalog = [res \in RowKinds |-> IF res = "plays" THEN RowIds ELSE {1}]
  /\ last = NoResponse
  /\ database = TRUE
  /\ cmd = NewCommand

Init ==
  /\ InitCatalog
  /\ reservations = {}
  /\ tickets = {}

InitHeld ==
  /\ InitCatalog
  /\ \/ reservations = {} /\ tickets = {}
     \/ reservations = {EarlierReservation} /\ tickets = {EarlierTicket}

\* Who sends which request: A comes from either user, B from u2.
Callers(q) == IF q = "A" THEN Users ELSE {"u2"}

\* Request A comes from u1, request B from u2.
Owner(q) == IF q = "A" THEN "u1" ELSE "u2"

CreateSteps(Q) ==
  \/ \E q \in Q : BeginTx(q)
  \/ \E q \in Q : InsertRow(q)
  \/ \E q \in Q : Commit(q)

\* Concurrent creates, deletes and catalog updates on one store.
Next ==
  \/ \E q \in Requests, items \in StoreBatches :
       Validate(q, Owner(q), items)
  \/ CreateSteps(Requests)
  \/ \E q \in Requests : DeadlockAbort(q)
  \/ \E r \in reservations : DeleteReservation(r)
  \/ \E u \in Users : DeleteUser(u)
  \/ \E p \in PerfIds : DeletePerformance(p)
  \/ \E h \in HallIds : DeleteHall(h)
  \/ \E h \in HallIds, s \in 1..MaxDim : UpdateHall(h, 1, s)
  \/ \E p \in PerfIds, h \in HallIds : UpdatePerformance(p, h, perfs[p].show_time)

Spec == Init /\ [][Next]_vars

\* Two concurrent creates while the clock runs; nothing is deleted.
NextRace ==
  \/ Tick
  \/ \E q \in Requests : \E u \in Callers(q), items \in Batches(HallOneSeats) :
       Validate(q, u, items)
  \/ CreateSteps(Requests)
  \/ \E q \in Requests : DeadlockAbort(q)

SpecRace == InitHeld /\ [][NextRace]_vars

\* Every row, seat and performance id a client can send in one item.
AllItems == Items(Numbers, Numbers, PerfRefs)

\* An item for seat (1, 1) of performance 2.
OtherItem == SeatOf(1, 1, 2)

\* One request: a single item of any kind, alone or beside OtherItem, or none.
ValidationBatches ==
  {<<>>} \cup {<<it>> : it \in AllItems}
         \cup {<<it, OtherItem>> : it \in AllItems}
         \cup {<<OtherItem, it>> : it \in AllItems}

\* One request validated and created while the clock runs and hall 1 is resized.
NextValidate ==
  \/ Tick
  \/ \E r \in 1..MaxDim, s \in 1..MaxDim : UpdateHall(1, r, s)
  \/ \E items \in ValidationBatches : Validate("A", "u1", items)
  \/ CreateSteps({"A"})

SpecValidate == InitHeld /\ [][NextValidate]_vars

\* The performance listing read between creates, deletes and hall updates.
NextAvail ==
  \/ ListPerformances
  \/ \E items \in Batches(HallOneSeats) : Validate("A", "u2", items)
  \/ CreateSteps({"A"})
  \/ \E r \in reservations : DeleteReservation(r)
  \/ \E p \in PerfIds : DeletePerformance(p)
  \/ \E h \in HallIds : DeleteHall(h)
  \/ \E r \in 1..MaxDim, s \in 1..MaxDim : UpdateHall(1, r, s)

SpecAvail == InitHeld /\ [][NextAvail]_vars

\* A second reservation made earlier, by u2, for the next seat of performance 1.
OtherReservation == [id |-> "R1", user |-> "u2"]

OtherTicket ==
  [row |-> 1, seat |-> 2, performance |-> 1, reservation |-> "R1", n |-> 1]

\* The catalog with an administrator account and the two earlier reservations.
InitApi ==
  /\ now = 0
  /\ users = Users \cup Staff
  /\ halls = [h \in HallIds |-> [rows |-> 1, seats_in_row |-> MaxDim]]
  /\ perfs = [p \in PerfIds |-> [play |-> 1, theatre_hall |-> p, show_time |-> p]]
  /\ req = [q \in Requests |-> IdleRequest]
  /\ listing = [p \in {} |-> 0]
  /\ catalog = [res \in RowKinds |-> IF res = "plays" THEN RowIds ELSE {1}]
  /\ last = NoResponse
  /\ database = TRUE
  /\ cmd = NewCommand
  /\ reservations = {EarlierReservation, OtherReservation}
  /\ tickets = {EarlierTicket, OtherTicket}

\* The reservation ids a client can name.
ReservationIds == {"R0", "R1", "A"}

\* The reservations resource: every routed action by every caller, beside one
\* create by u2.
NextOwner ==
  \/ \E c \in Principals, act \in Actions \ {"upload_image"}, id \in ReservationIds :
       Refuse(c, "reservations", act, id)
  \/ \E c \in Principals : ReservationList(c)
  \/ \E c \in Principals, act \in Actions, id \in ReservationIds :
       ReservationDetail(c, act, id)
  \/ \E c \in Principals, id \in ReservationIds : ReservationDestroy(c, id)
  \/ \E items \in Batches(HallOneSeats) : Validate("A", "u2", items)
  \/ CreateSteps({"A"})

SpecOwner == InitApi /\ [][NextOwner]_vars

\* The actions the router serves for a resource: upload-image is of plays only.
Routed(res, act) == act # "upload_image" \/ res = "plays"

\* The rows the administrator adds and removes beside the ones booked.
NewRows == RowIds \ {1}

\* Every caller on every resource: reads, writes and refusals.
NextAccess ==
  \/ \E c \in Principals, res \in Catalog \cup {"reservations"}, act \in Actions,
        id \in NewRows :
       Routed(res, act) /\ Refuse(c, res, act, id)
  \/ \E c \in Principals, res \in Catalog : CatalogList(c, res)
  \/ \E c \in Principals, res \in Catalog, id \in NewRows : CatalogRetrieve(c, res, id)
  \/ \E c \in Principals, res \in RowKinds, id \in NewRows : RowCreate(c, res, id)
  \/ \E c \in Principals, res \in RowKinds, act \in Actions, id \in NewRows :
       RowUpdate(c, res, act, id)
  \/ \E c \in Principals, res \in RowKinds, id \in NewRows : RowDestroy(c, res, id)
  \/ \E c \in Principals, id \in NewRows : PlayDestroy(c, id)
  \/ \E c \in Principals, id \in NewRows : upload_image(c, id)
  \/ \E c \in Principals, h \in NewRows, s \in 1..MaxDim : HallCreate(c, h, 1, s)
  \/ \E c \in Principals, h \in NewRows, s \in 1..MaxDim : HallUpdate(c, h, 1, s)
  \/ \E c \in Principals, h \in NewRows : HallDestroy(c, h)
  \/ \E c \in Principals, p \in NewRows, play \in RowIds, h \in NewRows :
       PerformanceCreate(c, p, play, h, p)
  \/ \E c \in Principals, p \in NewRows, play \in RowIds, h \in NewRows :
       PerformanceUpdate(c, p, play, h, p)
  \/ \E c \in Principals, p \in NewRows : PerformanceDestroy(c, p)
  \/ \E c \in Principals : ReservationList(c)
  \/ \E c \in Principals, act \in Actions : ReservationDetail(c, act, "R1")

SpecAccess == InitApi /\ [][NextAccess]_vars

\* The play an update of performance p sends: the one it has.
PlayOf(p) == IF p \in DOMAIN perfs THEN perfs[p].play ELSE 1

\* The administrator schedules, moves and removes performances and removes
\* plays, while two seats of performance 1 are booked.
NextSchedule ==
  \/ \E c \in Staff, p \in PerfIds, play \in RowIds, h \in HallIds, t \in 1..MaxTime :
       PerformanceCreate(c, p, play, h, t)
  \/ \E c \in Staff, p \in PerfIds, h \in HallIds, t \in 1..MaxTime :
       PerformanceUpdate(c, p, PlayOf(p), h, t)
  \/ \E c \in Staff, p \in PerfIds : PerformanceDestroy(c, p)
  \/ \E c \in Staff, id \in RowIds : PlayDestroy(c, id)

SpecSchedule == InitApi /\ [][NextSchedule]_vars

\* The query parameters a client can give, and the values of each.
FilterValues ==
  [date_from |-> 0 .. DateOf(MaxTime), date_to |-> 0 .. DateOf(MaxTime),
   play |-> RowIds, hall |-> HallIds]

\* Every choice of at most two parameters with their values.
Filters ==
  UNION {{f \in [S -> RowIds \cup HallIds \cup (0 .. DateOf(MaxTime))] :
            \A k \in S : f[k] \in FilterValues[k]} :
           S \in {T \in SUBSET DOMAIN PerformanceFilter : Cardinality(T) <= 2}}

\* The performance list read by u1 under every choice of parameters while the
\* administrator moves performance 2 between halls, plays and times.
NextFilter ==
  \/ \E f \in Filters : PerformanceList("u1", f)
  \/ \E c \in Staff, play \in RowIds, h \in HallIds, t \in 0..MaxTime :
       PerformanceUpdate(c, 2, play, h, t)

SpecFilter == InitApi /\ [][NextFilter]_vars

\* wait_for_db runs while the database server goes up and down.
NextWait ==
  \/ DatabaseStarts
  \/ DatabaseStops
  \/ WaitStart
  \/ EnsureConnection
  \/ Sleep
  \/ WaitReady

\* The command is a running process: each of its steps is taken in the end.
FairWait ==
  /\ WF_vars(WaitStart) /\ WF_vars(EnsureConnection)
  /\ WF_vars(Sleep) /\ WF_vars(WaitReady)

SpecWait == Init /\ [][NextWait]_vars /\ FairWait

\* Two concurrent creates while reservations are deleted, so that a seat a
\* create was refused can become free afterwards.
NextLive ==
  \/ \E q \in Requests, items \in Batches(HallOneSeats) : Validate(q, Owner(q), items)
  \/ CreateSteps(Requests)
  \/ \E q \in Requests : DeadlockAbort(q)
  \/ \E r \in reservations : DeleteReservation(r)

\* A worker that serves a request keeps running, and the store ends a
\* deadlock: each step of create() that stays possible is taken.
FairCreate ==
  \A q \in Requests :
    /\ WF_vars(BeginTx(q))
    /\ WF_vars(InsertRow(q))
    /\ WF_vars(Commit(q))
    /\ WF_vars(DeadlockAbort(q))

SpecLive == InitHeld /\ [][NextLive]_vars /\ FairCreate

----------------------------------------------------------------------------
(* Properties                                                              *)

Done(q) == req[q].pc = "done"

Succeeded(q) == Done(q) /\ req[q].status = 201

\* q ended with the 400 "Some seat is already taken for this performance."
SeatTaken(q) ==
  Done(q) /\ req[q].status = 400 /\ req[q].detail.kind = "taken"

Deadlocked(q) ==
  Done(q) /\ req[q].status = 500 /\ req[q].detail.kind = "deadlock"

\* is_valid() accepted the batch of q, so create() ran or is running.
PassedValidation(q) ==
  \/ req[q].pc \in {"valid", "tx"}
  \/ Done(q) /\ req[q].detail.kind \notin {"fields", "empty"}

SeatsOf(q) == {Seat(req[q].items[i]) : i \in 1..Len(req[q].items)}

NoRepeat(q) == Cardinality(SeatsOf(q)) = Len(req[q].items)

\* Some seat of q was held before either request began.
HeldEarlier(q) ==
  \E t \in tickets : t.reservation = EarlierReservation.id /\ Seat(t) \in SeatsOf(q)

\* Nothing but the other request can make q fail.
Clean(q) == PassedValidation(q) /\ NoRepeat(q) /\ ~HeldEarlier(q)

ReservationOf(q) == [id |-> q, user |-> req[q].user]

RowsOf(q) == {t \in tickets : t.reservation = q}

TicketsFor(s) == {t \in tickets : Seat(t) = s}

\* C1 as stated: two creates that both reach create() and share a seat end
\* with exactly one success and one 400 conflict, and the seat has at most
\* one persisted ticket.
C1_ExactlyOneAlways ==
  \A q, p \in Requests :
    (q # p /\ Done(q) /\ Done(p) /\ PassedValidation(q) /\ PassedValidation(p)
       /\ SeatsOf(q) \cap SeatsOf(p) # {})
    => /\ \/ Succeeded(q) /\ SeatTaken(p)
          \/ Succeeded(p) /\ SeatTaken(q)
       /\ \A s \in SeatsOf(q) \cap SeatsOf(p) : Cardinality(TicketsFor(s)) <= 1

\* C1 as amended: with no delete in between, two concurrent creates that
\* share a seat never both succeed and the seat never has two persisted
\* tickets; when no seat of either batch was held before and neither batch
\* repeats a seat, exactly one succeeds and the other ends with the 400
\* conflict, or, when the batches share more than one seat, with the 400
\* conflict or the 500 of a deadlock.
C1_OneWinner ==
  \A q, p \in Requests :
    (q # p /\ Done(q) /\ Done(p) /\ PassedValidation(q) /\ PassedValidation(p)
       /\ SeatsOf(q) \cap SeatsOf(p) # {})
    => /\ ~(Succeeded(q) /\ Succeeded(p))
       /\ \A s \in SeatsOf(q) \cap SeatsOf(p) : Cardinality(TicketsFor(s)) <= 1
       /\ (Clean(q) /\ Clean(p))
          => /\ Succeeded(q) # Succeeded(p)
             /\ \A x \in {q, p} : ~Succeeded(x) => (SeatTaken(x) \/ Deadlocked(x))
             /\ Cardinality(SeatsOf(q) \cap SeatsOf(p)) = 1
                => \A x \in {q, p} : ~Succeeded(x) => SeatTaken(x)

C1_Witness ==
  /\ Clean("A") /\ Clean("B")
  /\ Cardinality(SeatsOf("A") \cap SeatsOf("B")) = 1
  /\ Succeeded("A") /\ SeatTaken("B")
  /\ \A s \in SeatsOf("A") \cap SeatsOf("B") : Cardinality(TicketsFor(s)) = 1

\* C2: at most one Ticket for each (row, seat, performance), in every state
\* reached by creates, deletes and catalog updates.
C2_OneTicketPerSeat ==
  \A t1, t2 \in tickets : Seat(t1) = Seat(t2) => t1 = t2

C2_Witness ==
  \E q \in Requests :
    /\ SeatTaken(q)
    /\ \E t \in tickets : Seat(t) \in SeatsOf(q)
    /\ users # Users

\* The next row q inserts is a seat held by a persisted ticket.
MeetsHeldSeat(q) == Inserting(q) /\ TicketsFor(Seat(NextItem(q))) # {}

Invisible(q) == ReservationOf(q) \notin reservations /\ RowsOf(q) = {}

\* C4: a request that is in flight or was rejected is invisible, every
\* visible ticket belongs to a visible reservation, and the step that makes
\* the Reservation of a request visible makes all of its tickets visible.
C4_NothingPartial ==
  /\ [](\A q \in Requests : ~Succeeded(q) => Invisible(q))
  /\ [](\A t \in tickets : \E r \in reservations : r.id = t.reservation)
  /\ [][\A q \in Requests :
          (ReservationOf(q) \notin reservations /\ ReservationOf(q)' \in reservations')
          => /\ RowsOf(q) = {}
             /\ Cardinality(RowsOf(q)') = Len(req[q].items)
             /\ {Seat(t) : t \in RowsOf(q)'} = SeatsOf(q)]_vars

C4_Witness ==
  \E q, p \in Requests :
    /\ Succeeded(q) /\ Cardinality(RowsOf(q)) = 2
    /\ InTx(p) /\ req[p].ins = 1 /\ Invisible(p)

Uncontested(q) == \A p \in Requests \ {q} : SeatsOf(p) \cap SeatsOf(q) = {}

Validating(q) == req[q].pc = "idle" /\ req'[q].pc # "idle"

HallOfItem(item) == halls[perfs[item.performance].theatre_hall]

Known(item) == item.performance \in DOMAIN perfs

PastItem(item) == Known(item) /\ perfs[item.performance].show_time < now

RowInside(item) == item.row \in 1..HallOfItem(item).rows

SeatInside(item) == item.seat \in 1..HallOfItem(item).seats_in_row

\* Item i of the answer to q carries an error keyed to field k.
Keyed(q, i, k) ==
  /\ req'[q].status = 400
  /\ req'[q].detail.kind = "fields"
  /\ k \in req'[q].detail.fields[i]

StoreUntouched == reservations' = reservations /\ tickets' = tickets

\* C6: a batch with an item that is past or out of range is rejected by the
\* validation step itself, before any write, whatever the other items are; a
\* rejected request never writes.
C6_InvalidItemRejectsBatch ==
  /\ [](\A q \in Requests : (Done(q) /\ req[q].status = 400) => Invisible(q))
  /\ [][\A q \in Requests :
          (Validating(q)
             /\ \E i \in 1..Len(req'[q].items) :
                  LET it == req'[q].items[i] IN
                    Known(it) /\ (PastItem(it) \/ ~RowInside(it) \/ ~SeatInside(it)))
          => /\ req'[q].pc = "done"
             /\ req'[q].status = 400
             /\ StoreUntouched]_vars

C6_Witness ==
  /\ Done("A") /\ req["A"].status = 400 /\ req["A"].detail.kind = "fields"
  /\ Len(req["A"].items) = 2
  /\ req["A"].detail.fields[1] = {}
  /\ req["A"].detail.fields[2] = {"seat"}
  /\ tickets # {}

\* C7: each value of the performance listing is rows * seats_in_row of the
\* hall minus the number of tickets of the performance in the store at the
\* time of the read, for every performance in the store.
C7_AvailabilityIsLive ==
  [][listing' # listing
     => /\ DOMAIN listing' = DOMAIN perfs'
        /\ \A p \in DOMAIN listing' :
             listing'[p] + Cardinality({t \in tickets' : t.performance = p})
               = halls'[perfs'[p].theatre_hall].rows
                   * halls'[perfs'[p].theatre_hall].seats_in_row]_vars

\* A full house is listed with no seat left, after an earlier listing.
C7_Witness ==
  /\ 1 \in DOMAIN listing /\ 1 \in DOMAIN perfs
  /\ listing[1] = 0
  /\ Cardinality({t \in tickets : t.performance = 1}) = 2
  /\ halls[perfs[1].theatre_hall].rows * halls[perfs[1].theatre_hall].seats_in_row = 2
  /\ Succeeded("A")

\* C8 as stated: a batch with an item for a past performance gets a 400 that
\* mentions the performance field, whatever the row and seat of that item.
C8_PastAlwaysNamesPerformance ==
  [][\A q \in Requests :
       (Validating(q) /\ \E i \in 1..Len(req'[q].items) : PastItem(req'[q].items[i]))
       => /\ StoreUntouched
          /\ \E j \in 1..Len(req'[q].items) : Keyed(q, j, "performance")]_vars

\* C8 as amended: an item for a past performance whose row and seat are not
\* negative gets a 400 keyed to the performance field, also when the row or
\* the seat is outside the hall, and nothing is persisted; a negative row or
\* seat is rejected before the show time is looked at.
C8_PastNamesPerformance ==
  [][\A q \in Requests :
       Validating(q)
       => \A i \in 1..Len(req'[q].items) :
            LET it == req'[q].items[i] IN
              PastItem(it)
              => /\ req'[q].pc = "done" /\ req'[q].status = 400
                 /\ StoreUntouched
                 /\ (it.row >= 0 /\ it.seat >= 0) => Keyed(q, i, "performance")
                 /\ (it.row < 0) => Keyed(q, i, "row")
                 /\ (it.seat < 0) => Keyed(q, i, "seat")]_vars

C8_Witness ==
  /\ Done("A") /\ req["A"].status = 400 /\ req["A"].detail.kind = "fields"
  /\ Len(req["A"].items) = 1
  /\ PastItem(req["A"].items[1])
  /\ req["A"].items[1].row = 0
  /\ req["A"].detail.fields[1] = {"performance"}

\* C9 as stated: at the commit of a create, every performance of the batch
\* has a show_time strictly later than the current time.
C9_ShowTimeAfterCommit ==
  [][\A q \in Requests :
       (req[q].status # 201 /\ req'[q].status = 201)
       => \A i \in 1..Len(req[q].items) :
            perfs[req[q].items[i].performance].show_time > now]_vars

\* C10 as stated: for an existing performance, a row outside the hall is
\* answered with a 400 keyed to row, a seat outside with a 400 keyed to seat,
\* and a row and seat inside get no row or seat error.
C10_RangeErrorsAlwaysKeyed ==
  [][\A q \in Requests :
       Validating(q)
       => \A i \in 1..Len(req'[q].items) :
            LET it == req'[q].items[i] IN
              Known(it)
              => /\ ~RowInside(it) => Keyed(q, i, "row")
                 /\ ~SeatInside(it) => Keyed(q, i, "seat")
                 /\ (RowInside(it) /\ SeatInside(it))
                    => ~Keyed(q, i, "row") /\ ~Keyed(q, i, "seat")]_vars

\* C10 as amended: for an existing performance that is not in the past, an
\* item with a row or a seat outside the hall is rejected with a 400; the
\* error is keyed to row when the row is outside and the seat is not
\* negative, and keyed to seat when the seat is outside and the row is
\* inside; an item with row and seat inside gets no error.
C10_RangeErrorsKeyed ==
  [][\A q \in Requests :
       Validating(q)
       => \A i \in 1..Len(req'[q].items) :
            LET it == req'[q].items[i] IN
              (Known(it) /\ ~PastItem(it))
              => /\ (~RowInside(it) \/ ~SeatInside(it))
                    => req'[q].pc = "done" /\ req'[q].status = 400
                 /\ (~RowInside(it) /\ it.seat >= 0) => Keyed(q, i, "row")
                 /\ (~SeatInside(it) /\ RowInside(it)) => Keyed(q, i, "seat")
                 /\ (RowInside(it) /\ SeatInside(it))
                    => (req'[q].detail.kind = "fields"
                          => req'[q].detail.fields[i] = {})]_vars

C10_Witness ==
  /\ Done("A") /\ req["A"].status = 400 /\ req["A"].detail.kind = "fields"
  /\ Len(req["A"].items) = 1
  /\ Known(req["A"].items[1]) /\ ~PastItem(req["A"].items[1])
  /\ req["A"].items[1].row = 1
  /\ req["A"].items[1].seat = HallOfItem(req["A"].items[1]).seats_in_row + 1
  /\ req["A"].detail.fields[1] = {"seat"}

Answered(res, act) ==
  last'.n # last.n /\ last'.resource = res /\ last'.action = act

\* C12: the reservation list answered to an authenticated caller is exactly
\* the set of the reservations in the store whose user is the caller,
\* whatever the other users hold.
C12_ListIsOwn ==
  [][Answered("reservations", "list")
     => IF last'.caller \in users'
        THEN /\ last'.status = 200
             /\ last'.body = {r.id : r \in {x \in reservations' : x.user = last'.caller}}
        ELSE last'.status # 200 /\ last'.body = {}]_vars

\* u1 lists R0 while u2 holds the next seat of the same performance.
C12_Witness ==
  /\ last.resource = "reservations" /\ last.action = "list"
  /\ last.caller = "u1" /\ last.status = 200
  /\ last.body = {"R0"}
  /\ OtherReservation \in reservations
  /\ \E t \in tickets, o \in tickets :
       /\ t.reservation = "R0" /\ o.reservation = "R1"
       /\ t.performance = o.performance

\* C13: every Reservation a create persists belongs to the caller of that
\* request, and the request that succeeded is the one that persisted it.
C13_OwnerIsCaller ==
  /\ [](\A q \in Requests :
          Succeeded(q) => \A r \in reservations : r.id = q => r.user = req[q].user)
  /\ [][\A r \in reservations' \ reservations :
          /\ r.id \in Requests
          /\ req[r.id].pc = "tx" /\ req'[r.id].status = 201
          /\ r.user = req[r.id].user]_vars

\* u1 and u2 have each created a reservation of their own.
C13_Witness ==
  /\ Succeeded("A") /\ Succeeded("B")
  /\ req["A"].user = "u1" /\ req["B"].user = "u2"
  /\ [id |-> "A", user |-> "u1"] \in reservations
  /\ [id |-> "B", user |-> "u2"] \in reservations

\* Nothing but the response changes.
StoreSame ==
  UNCHANGED <<now, users, halls, perfs, reservations, tickets, req, listing, catalog>>

Reads == {"list", "retrieve"}

\* C14: on the catalog and scheduling resources a read is refused to no
\* caller, a write is let through exactly when the caller is an
\* administrator, and a write by any other caller is answered 403 and changes
\* nothing.
C14_AdminWritesOnly ==
  [][(last'.n # last.n /\ last'.resource \in Catalog)
     => IF last'.action \in Reads
        THEN last'.status \notin {401, 403}
        ELSE /\ (last'.status \notin {401, 403}) <=> is_staff(last'.caller)
             /\ ~is_staff(last'.caller) => (last'.status = 403 /\ StoreSame)]_vars

\* u1 is refused the delete of a hall after the administrator added an actor.
C14_Witness ==
  /\ last.caller = "u1" /\ last.resource = "halls" /\ last.action = "destroy"
  /\ last.status = 403
  /\ last.id \in DOMAIN halls
  /\ catalog["actors"] = RowIds

C16_OnlyListAndCreate ==
  [][(last'.n # last.n /\ last'.resource = "reservations"
        /\ last'.action \notin {"list", "create"})
     => /\ last'.status \notin {200, 204}
        /\ reservations' = reservations
        /\ tickets' = tickets]_vars

\* No two performances share a hall and a show time.
OnePerformancePerHallTime ==
  \A p1 \in DOMAIN perfs, p2 \in DOMAIN perfs :
    (perfs[p1].theatre_hall = perfs[p2].theatre_hall
       /\ perfs[p1].show_time = perfs[p2].show_time) => p1 = p2

C18_PlayIsProtected ==
  [][(Answered("plays", "destroy") /\ last'.id \in catalog["plays"])
     => /\ perfs' = perfs
        /\ tickets' = tickets
        /\ IF PerformancesOfPlay(last'.id) # {}
           THEN last'.status \notin {200, 204} /\ catalog' = catalog
           ELSE /\ last'.status = 204
                /\ catalog' = [catalog EXCEPT !["plays"] = @ \ {last'.id}]]_vars

\* The play of the booked performance was refused after the free one went.
C18_Witness ==
  /\ last.resource = "plays" /\ last.action = "destroy" /\ last.status = 500
  /\ last.id \in catalog["plays"]
  /\ PerformancesOfPlay(last.id) # {}
  /\ TicketsOfPerformances(PerformancesOfPlay(last.id)) # {}
  /\ catalog["plays"] # RowIds

\* C19: the delete of a hall removes the performances of that hall and the
\* tickets of those performances and nothing else: the other halls, the
\* other performances and their tickets, the reservations and the users are
\* as before.
C19_HallDeleteFrame ==
  [][DOMAIN halls' # DOMAIN halls
     => \E h \in DOMAIN halls :
          /\ DOMAIN halls' = DOMAIN halls \ {h}
          /\ \A x \in DOMAIN halls' : halls'[x] = halls[x]
          /\ DOMAIN perfs' = {p \in DOMAIN perfs : perfs[p].theatre_hall # h}
          /\ \A p \in DOMAIN perfs' : perfs'[p] = perfs[p]
          /\ tickets' = {t \in tickets : t.performance \in DOMAIN perfs'}
          /\ \A t \in tickets \ tickets' :
               t.performance \in DOMAIN perfs /\ perfs[t.performance].theatre_hall = h
          /\ reservations' = reservations
          /\ users' = users]_vars

\* Hall 1 is gone: the reservation of A is left without tickets, the one of B
\* for hall 2 has its ticket.
C19_Witness ==
  /\ 1 \notin DOMAIN halls /\ 1 \notin DOMAIN perfs
  /\ 2 \in DOMAIN halls
  /\ Succeeded("A") /\ ReservationOf("A") \in reservations /\ RowsOf("A") = {}
  /\ Succeeded("B") /\ RowsOf("B") # {}

\* C20: a create with an empty ticket list is answered 400 by the validation
\* step and persists nothing, and a Reservation enters the store together
\* with one ticket per item of its request, of which there is at least one.
C20_NeverWithoutTickets ==
  /\ [](\A q \in Requests : (Done(q) /\ Len(req[q].items) = 0) => Invisible(q))
  /\ [][\A q \in Requests :
          (Validating(q) /\ Len(req'[q].items) = 0)
          => /\ req'[q].pc = "done" /\ req'[q].status = 400
             /\ StoreUntouched]_vars
  /\ [][\A r \in reservations' \ reservations :
          /\ r.id \in Requests
          /\ Len(req[r.id].items) >= 1
          /\ Cardinality({t \in tickets' : t.reservation = r.id}) >= 1
          /\ {t.n : t \in {x \in tickets' : x.reservation = r.id}}
               = 1..Len(req[r.id].items)]_vars

\* A was sent without tickets and refused; B was created with its tickets.
C20_Witness ==
  /\ Done("A") /\ req["A"].status = 400 /\ req["A"].detail.kind = "empty"
  /\ Len(req["A"].items) = 0
  /\ Invisible("A")
  /\ Succeeded("B") /\ ReservationOf("B") \in reservations
  /\ Cardinality(RowsOf("B")) = Len(req["B"].items)

\* C21: every request that is taken up ends; its answer is final; a request
\* that was not answered 201 has nothing in the store then or later, also
\* when its seat becomes free; and a request that succeeded writes once.
C21_OneDefinitiveAnswer ==
  /\ \A q \in Requests : (req[q].pc # "idle") ~> Done(q)
  /\ [](\A q \in Requests : (Done(q) /\ req[q].status # 201) => Invisible(q))
  /\ [][\A q \in Requests :
          /\ req[q].status # 0 => req'[q] = req[q]
          /\ Done(q) => RowsOf(q)' \subseteq RowsOf(q)]_vars

\* A was refused seat (1, 1), which is free now that R0 has been deleted.
C21_Witness ==
  /\ SeatTaken("A")
  /\ Invisible("A")
  /\ \A s \in SeatsOf("A") : TicketsFor(s) = {}
  /\ EarlierReservation \notin reservations
  /\ Done("B")

\* C22 as stated: a create that meets a constraint of the store, at the
\* insert or at the commit, is answered with the 400 conflict: a create that
\* passed validation ends with 201 or with that 400. (The victim of a
\* deadlock, whose error is not a constraint violation, is left aside.)
C22_ViolationsAreConflicts ==
  \A q \in Requests :
    (Done(q) /\ PassedValidation(q) /\ ~Deadlocked(q))
    => (Succeeded(q) \/ SeatTaken(q))

\* C23 as stated: every ticket in the store has its row in 1..rows and its
\* seat in 1..seats_in_row of the hall of its performance, whatever updates
\* of halls and performances were made.
C23_TicketsInsideHall ==
  \A t \in tickets :
    t.performance \in DOMAIN perfs
    => /\ perfs[t.performance].theatre_hall \in DOMAIN halls
       /\ InRange(t.row, halls[perfs[t.performance].theatre_hall].rows)
       /\ InRange(t.seat, halls[perfs[t.performance].theatre_hall].seats_in_row)

\* C24 as stated: the performance list filtered by hall, play, date_from and
\* date_to is answered 200 with exactly the performances that match every
\* parameter given: theatre hall h, play p, show date inside the inclusive
\* range.
C24_FiltersSelectExactly ==
  [][Answered("performances", "list")
     => /\ last'.status = 200
        /\ DOMAIN listing' =
             {p \in DOMAIN perfs :
                /\ "hall" \in DOMAIN last'.data
                     => perfs[p].theatre_hall = last'.data["hall"]
                /\ "play" \in DOMAIN last'.data
                     => perfs[p].play = last'.data["play"]
                /\ "date_from" \in DOMAIN last'.data
                     => perfs[p].show_time \div 2 >= last'.data["date_from"]
                /\ "date_to" \in DOMAIN last'.data
                     => perfs[p].show_time \div 2 <= last'.data["date_to"]}]_vars

\* C25: a batch that lists the same (row, seat, performance) twice is
\* rejected as a whole, also when the seat is free in the store: while the
\* request runs and after it ended no Reservation and no Ticket of it is
\* persisted, and it ends with a 400, which is the "seat is already taken"
\* error when the items passed validation.
C25_RepeatedSeatRejected ==
  \A q \in Requests :
    (req[q].pc # "idle" /\ ~NoRepeat(q))
    => /\ Invisible(q)
       /\ Done(q) => /\ req[q].status = 400
                     /\ PassedValidation(q) => SeatTaken(q)

\* The seat (1, 1) of performance 2 is free, and the batch that lists it
\* twice was refused as taken.
C25_Witness ==
  /\ req["A"].items = <<OtherItem, OtherItem>>
  /\ TicketsFor(Seat(OtherItem)) = {}
  /\ SeatTaken("A")

\* C26 as stated: in every state and for every performance,
\* 0 <= tickets_available <= rows * seats_in_row of its hall.
C26_AvailabilityInsideCapacity ==
  \A p \in DOMAIN perfs :
    /\ 0 <= TicketsAvailable(p)
    /\ TicketsAvailable(p)
         <= halls[perfs[p].theatre_hall].rows * halls[perfs[p].theatre_hall].seats_in_row

\* C27: a create ends with the "some seat is already taken" 400 only when one
\* of its seats is held by a committed ticket of another reservation or
\* occurs twice in its batch; so concurrent creates that passed validation
\* for seats that are pairwise disjoint, not repeated and not held before all
\* end with 201, in every interleaving and whoever the callers are.
C27_ConflictOnlyOnSharedSeat ==
  /\ [][\A q \in Requests :
          (SeatTaken(q)' /\ ~SeatTaken(q))
          => \/ ~NoRepeat(q)
             \/ \E t \in tickets : t.reservation # q /\ Seat(t) \in SeatsOf(q)]_vars
  /\ [](\A q \in Requests :
          (Done(q) /\ Clean(q) /\ Uncontested(q)) => Succeeded(q))

\* Both creates are committed, each for its own seats of performance 1.
C27_Witness ==
  /\ Succeeded("A") /\ Succeeded("B")
  /\ SeatsOf("A") # {} /\ SeatsOf("B") # {}
  /\ SeatsOf("A") \cap SeatsOf("B") = {}
  /\ \A s \in SeatsOf("A") \cup SeatsOf("B") : s[3] = 1
  /\ RowsOf("A") # {} /\ RowsOf("B") # {}

\* C28: a step that deletes reservations (the delete of a Reservation, or of
\* the User who owns it) removes exactly the tickets of the deleted
\* reservations and no other ticket, leaves halls and performances alone,
\* leaves no ticket on a freed seat, so that the constraint lets a new create
\* take it, and raises tickets_available of every performance by the number
\* of its tickets removed.
C28_DeleteFreesExactlyItsSeats ==
  [][(reservations' # reservations /\ reservations' \subseteq reservations)
     => /\ tickets' = {t \in tickets :
                         t.reservation \notin {r.id : r \in reservations \ reservations'}}
        /\ UNCHANGED <<halls, perfs>>
        /\ \A t \in tickets \ tickets' : TicketsFor(Seat(t))' = {}
        /\ \A p \in DOMAIN perfs :
             TicketsAvailable(p)' =
               TicketsAvailable(p)
                 + Cardinality({t \in tickets \ tickets' : t.performance = p})]_vars

\* The create of u1 was committed with some seat, u1 was deleted, and the
\* same seat is now a committed ticket of the create of u2.
C28_Witness ==
  /\ Succeeded("A")
  /\ "u1" \notin users
  /\ ReservationOf("A") \notin reservations
  /\ Succeeded("B")
  /\ \E t \in RowsOf("B") : Seat(t) \in SeatsOf("A")

Returned == cmd.pc = "done"

\* The attempts were all counted, none beyond MaxTries.
AllCounted == cmd.tries < MaxTries

\* C29: wait_for_db returns, and reports ready, only after an attempt that
\* found the database accepting connections; every refused attempt is
\* followed by a sleep of delay seconds and then by another attempt, however
\* many attempts were refused before; so the command returns if the database
\* comes to stay reachable, and while the database is unreachable for good it
\* neither returns nor reports ready, and goes on trying.
C29_ReturnsOnlyOnceConnected ==
  /\ [][(cmd'.is_connected /\ ~cmd.is_connected) => (database /\ cmd.pc = "try")]_vars
  /\ []((Returned \/ cmd.out = "ready") => (cmd.is_connected /\ cmd.tries >= 1))
  /\ []((cmd.pc = "try" /\ ~database) => ENABLED EnsureConnection)
  /\ [][(cmd.pc = "try" /\ ~database /\ cmd'.tries # cmd.tries)
        => (cmd'.pc = "sleep" /\ cmd'.remaining = delay /\ ~cmd'.is_connected)]_vars
  /\ [][(cmd.pc = "sleep" /\ cmd'.pc = "try") => cmd'.remaining = 0]_vars
  /\ [](AllCounted /\ cmd.pc = "try" => cmd.slept = delay * cmd.tries)
  /\ (<>[]database) => <>Returned
  /\ []((~cmd.is_connected /\ []~database)
          => ([](~Returned /\ cmd.out # "ready") /\ []<>(cmd.pc = "try")))

\* The command returned after attempts that were refused and slept through.
C29_Witness ==
  /\ Returned
  /\ cmd.out = "ready"
  /\ cmd.tries = 3
  /\ cmd.slept = delay * 2
  /\ database
====
